---- MODULE Spec2Model ----
(***************************************************************************)
(* The story-generation request pipeline of the ALREADY backend            *)
(* (POST /stories/generate, app/api/stories.py) with the collaborators it  *)
(* reads: the Users subscription columns written by app/api/subscription.py*)
(* and the generation client of app/core/claude.py.                        *)
(*                                                                         *)
(* The datastore (Users, Desires, Stories) is an external, persistent      *)
(* store: its content when the process starts is whatever earlier runs     *)
(* left there, so Init draws the Stories table from a bounded set of       *)
(* tables.  Every datastore round trip of a handler is one action, so      *)
(* handlers of different requests interleave between round trips.          *)
(***************************************************************************)
EXTENDS Integers, Sequences, FiniteSets, TLC

\* ------------------------------------------------------------------ bounds
\* Rows the Stories table may hold when the process starts.
MaxInitStories == 2
\* Clock ticks in one UTC day, and the last clock value explored.
DayLen == 2
MaxTime == 4
\* Largest story count handed to the stage selector in SpecStage.
MaxSeq == 9
\* Longest provider text handed to the response parser in SpecParse.
MaxLen == 5
MaxCapLen == 5         \* longest enumerated body given to _cap_to_chars
MaxBudget == 3         \* largest enumerated character budget
MaxHistRows == 2       \* most Stories rows in the tables of SpecHist
MaxUploads == 3        \* most audio files uploaded in SpecSpeak

\* ------------------------------------------------------------- identities
None == "None"
UserIds == {1, 2}
\* The users whose clients act in Spec (requests, checkout, webhooks); the
\* other users only own rows of the Stories table.
Clients == {1}
ReqIds == {"r1", "r2"}

\* config.CATEGORIES / config.ENERGY_WORDS are imported by stories.py but are
\* not defined in the config.py of this tree; the members are those listed in
\* the field descriptions of GenerateStoryRequest.
CATEGORIES == {"Love", "Money", "Career", "Health", "Home"}
ENERGY_WORDS == {"Powerful", "Peaceful", "Abundant", "Grateful", "Confident"}

\* Strings whose characters matter (themes) are sequences of characters.
Whitespace == {" ", "\n"}

RECURSIVE lstrip(_)
lstrip(s) == IF s # <<>> /\ Head(s) \in Whitespace THEN lstrip(Tail(s)) ELSE s

RECURSIVE rstrip(_)
rstrip(s) ==
    IF s # <<>> /\ s[Len(s)] \in Whitespace THEN rstrip(SubSeq(s, 1, Len(s) - 1)) ELSE s

strip(s) == rstrip(lstrip(s))

\* ------------------------------------------------------------------ state
VARIABLES
    Users,      \* Users table: id -> [stripe_subscription_id, subscription_status]
    Desires,    \* Desires table: set of [id, desireCategory]
    Stories,    \* Stories table: sequence of rows in id order
    now,        \* the UTC clock
    settings,   \* [ANTHROPIC_API_KEY]: "" or a key
    req,        \* one record per generate request (handler locals and outcome)
    call        \* the last application of a pure function (SpecStage)

vars == <<Users, Desires, Stories, now, settings, req, call>>


\* ------------------------------------------------------- datastore values
StripeStatuses == {"trialing", "active", "canceled"}
SubIdOf(u) == IF u = 1 THEN "sub_1" ELSE "sub_2"
SubIds == {SubIdOf(u) : u \in UserIds}

\* The catalog this deployment holds: Career, Health and Home have no row.
InitDesires ==
    {[id |-> 1, desireCategory |-> "Love"], [id |-> 2, desireCategory |-> "Money"]}
DesireIds == {d.id : d \in InitDesires}

InitThemes == {<<"a">>}
InitTimes == {DayLen - 1, DayLen}

StoryRow(i, u, d, th, t) ==
    [id |-> i, user_id |-> u, desire_id |-> d, theme |-> th, story |-> <<"s">>,
     created_at |-> t]

\* Tables of n rows with ids 1..n; ids are assigned in creation order, so
\* created_at never decreases along the table.
InitTables(n) ==
    {tb \in [1..n -> [user_id : UserIds, desire_id : DesireIds,
                      theme : InitThemes, created_at : InitTimes]] :
        \A i \in 1..n : \A j \in 1..n :
            i < j => tb[i].created_at <= tb[j].created_at}

AsStories(tb) ==
    [i \in DOMAIN tb |->
        StoryRow(i, tb[i].user_id, tb[i].desire_id, tb[i].theme, tb[i].created_at)]

\* ------------------------------------------------------- request records
ValidBody(u, c) ==
    [user_id |-> u, name |-> "Ann", location |-> "Paris", energyWord |-> "Powerful",
     desireCategory |-> c, desireDescription |-> "I ran five miles", lovedOne |-> None]

\* Categories the modelled clients ask for: two of the catalog, one without a row.
AskedCategories == {"Love", "Money", "Career"}
ValidBodies == {ValidBody(u, c) : u \in UserIds, c \in AskedCategories}
InvalidBodies ==
    {[ValidBody(1, "Love") EXCEPT !.energyWord = "Sleepy"],
     [ValidBody(1, "Love") EXCEPT !.desireCategory = "Travel"],
     [ValidBody(1, "Love") EXCEPT !.name = ""],
     [ValidBody(1, "Love") EXCEPT !.location = ""],
     [ValidBody(1, "Love") EXCEPT !.desireDescription = ""]}
Bodies == ValidBodies \cup InvalidBodies

NoMessage == [kind |-> "none"]
\* No response body yet: id 0 stands for no identity (None).
NoResponse == [id |-> 0, theme |-> <<>>, story |-> <<>>]
NoSeen == [today |-> 0, other |-> 0, old |-> 0, pair |-> 0, user |-> 0, others |-> 0]

IdleReq ==
    [pc |-> "idle", body |-> None, has_sub |-> None, today_count |-> None,
     desire_id |-> None, story_count |-> None, previous_story_themes |-> None,
     kwargs |-> None, http |-> 0, detail |-> None, response |-> NoResponse,
     \* history variables: the external calls issued, in order; the steps that
     \* returned; the messages.create calls and the message sent; the id of the
     \* row inserted (0: none); the subscription status and the Stories table
     \* as they were at the quota reads and at the history read; whether
     \* another request of the same user was in flight; the environment's
     \* answers to the generation step
     calls |-> <<>>, got |-> {}, provider_calls |-> 0, sent |-> NoMessage,
     inserted |-> 0, seen_status |-> None, seen_quota |-> NoSeen,
     seen_hist |-> NoSeen, overlap |-> FALSE, llm |-> None, ins |-> None]

Running(q) == q.pc \notin {"idle", "done"}

Fail(q, code, why) == [q EXCEPT !.pc = "done", !.http = code, !.detail = why]


\* --------------------------------------------------- app/core/claude.py
STORY_MAX_CHARS == 2600

TITLE_BY_CATEGORY ==
    [c \in CATEGORIES |->
        CASE c = "Love" -> <<"A Love That Was Already Yours">>
          [] c = "Money" -> <<"The Abundance That Arrived">>
          [] c = "Career" -> <<"The Career That Was Already Yours">>
          [] c = "Health" -> <<"The Vitality That Was Already Yours">>
          [] c = "Home" -> <<"The Home That Was Already Yours">>]

\* A response text is a sequence of characters; a label such as TITLE: is one
\* element, in the spellings re.IGNORECASE accepts.
TitleLabels == {"TITLE:", "title:"}

_build_user_message(first_name, dream_place, energy_word, category, describe_whats_already_yours, someone_you_love) ==
    [kind |-> "user_message",
     describe |-> describe_whats_already_yours, first_name |-> first_name,
     dream_place |-> dream_place, energy_word |-> energy_word, category |-> category,
     someone_you_love |-> someone_you_love]

\* re.match(r"^TITLE:\s*(.+?)(?:\n|$)", raw, IGNORECASE | DOTALL) on the stripped
\* text: \s* takes the whole run of whitespace after the label (newlines too),
\* then the group runs from the next character up to the next newline or the end.
RECURSIVE UpToNewline(_)
UpToNewline(s) ==
    IF s = <<>> \/ Head(s) = "\n" THEN <<>> ELSE <<Head(s)>> \o UpToNewline(Tail(s))

\* A slip in the pattern: THEME: taken as a label too.
_parse_title_and_body_ThemeToo(raw0) ==
    LET raw == strip(raw0)
        rest == IF raw = <<>> THEN <<>> ELSE lstrip(Tail(raw))
        matched == raw # <<>> /\ Head(raw) \in TitleLabels \cup {"THEME:"} /\ rest # <<>>
        group == <<Head(rest)>> \o UpToNewline(Tail(rest))
        after == SubSeq(rest, Len(group) + 2, Len(rest))
    IN  IF matched
        THEN [title |-> strip(group), body |-> strip(after)]
        ELSE [title |-> <<>>, body |-> raw]

_parse_title_and_body(raw0) ==
    LET raw == strip(raw0)
        rest == IF raw = <<>> THEN <<>> ELSE lstrip(Tail(raw))
        matched == raw # <<>> /\ Head(raw) \in TitleLabels /\ rest # <<>>
        group == <<Head(rest)>> \o UpToNewline(Tail(rest))
        after == SubSeq(rest, Len(group) + 2, Len(rest))
    IN  IF matched
        THEN [title |-> strip(group), body |-> strip(after)]
        ELSE [title |-> <<>>, body |-> raw]

\* Two slips in the cut: one character too many, and no trim after the cut.
_cap_to_chars_OneMore(text, max_chars) ==
    IF Len(text) <= max_chars THEN text ELSE rstrip(SubSeq(text, 1, max_chars + 1))

_cap_to_chars_NoTrim(text, max_chars) ==
    IF Len(text) <= max_chars THEN text ELSE SubSeq(text, 1, max_chars)

_cap_to_chars(text, max_chars) ==
    IF Len(text) <= max_chars THEN text ELSE rstrip(SubSeq(text, 1, max_chars))

\* The parameters of generate_story, and those without a default.
GenerateStoryParams ==
    {"first_name", "dream_place", "energy_word", "category",
     "describe_whats_already_yours", "someone_you_love", "system_prompt"}
GenerateStoryRequired ==
    {"first_name", "dream_place", "energy_word", "category",
     "describe_whats_already_yours"}

\* Python binds a call's keyword arguments to the parameters before the body
\* runs: a keyword that names no parameter, or a required parameter left
\* without a value, raises TypeError at the call.
BindsTo(keywords, params, required) ==
    keywords \subseteq params /\ required \subseteq keywords

\* An exception is its class and its message; NoExc is a normal return.
Exc(type, msg) == [type |-> type, msg |-> msg]
NoExc == Exc(None, None)

\* A slip in the fallback: the category title replaces every parsed title.
generate_story_AlwaysFallback(kw, st, llm) ==
    LET out(e, n, m, t, b) ==
            [exc |-> e, calls |-> n, user_message |-> m, title |-> t, body |-> b]
    IN  IF ~BindsTo(DOMAIN kw, GenerateStoryParams, GenerateStoryRequired)
        THEN out(Exc("TypeError", "unexpected keyword argument"), 0, NoMessage, <<>>, <<>>)
        ELSE IF st.ANTHROPIC_API_KEY = ""
        THEN out(Exc("ValueError", "ANTHROPIC_API_KEY is not set"), 0, NoMessage, <<>>, <<>>)
        ELSE IF st.STORY_SYSTEM_PROMPT = ""
        THEN out(Exc("ValueError", "STORY_SYSTEM_PROMPT is not set"), 0, NoMessage, <<>>, <<>>)
        ELSE
        LET msg == _build_user_message(kw.first_name, kw.dream_place, kw.energy_word,
                       kw.category, kw.describe_whats_already_yours,
                       IF "someone_you_love" \in DOMAIN kw
                       THEN kw.someone_you_love ELSE None)
        IN  IF llm.kind = "raise"
            THEN out(Exc(llm.exc, "provider call failed"), 1, msg, <<>>, <<>>)
            ELSE IF llm.text = <<>>
            THEN out(Exc("ValueError", "Claude returned no text"), 1, msg, <<>>, <<>>)
            ELSE
            LET parsed == _parse_title_and_body(strip(llm.text))
                title == IF kw.category \in DOMAIN TITLE_BY_CATEGORY
                         THEN TITLE_BY_CATEGORY[kw.category] ELSE parsed.title
            IN  out(NoExc, 1, msg, title, _cap_to_chars(parsed.body, STORY_MAX_CHARS))

\* generate_story called with the keyword arguments kw, under the settings st,
\* with llm the answer the provider gives if it is asked.  exc is the exception
\* raised (NoExc: it returned title and body); calls counts messages.create calls.
generate_story(kw, st, llm) ==
    LET out(e, n, m, t, b) ==
            [exc |-> e, calls |-> n, user_message |-> m, title |-> t, body |-> b]
    IN  IF ~BindsTo(DOMAIN kw, GenerateStoryParams, GenerateStoryRequired)
        THEN out(Exc("TypeError", "unexpected keyword argument"), 0, NoMessage, <<>>, <<>>)
        ELSE IF st.ANTHROPIC_API_KEY = ""
        THEN out(Exc("ValueError", "ANTHROPIC_API_KEY is not set"), 0, NoMessage, <<>>, <<>>)
        ELSE IF st.STORY_SYSTEM_PROMPT = ""
        THEN out(Exc("ValueError", "STORY_SYSTEM_PROMPT is not set"), 0, NoMessage, <<>>, <<>>)
        ELSE
        LET msg == _build_user_message(kw.first_name, kw.dream_place, kw.energy_word,
                       kw.category, kw.describe_whats_already_yours,
                       IF "someone_you_love" \in DOMAIN kw
                       THEN kw.someone_you_love ELSE None)
        IN  IF llm.kind = "raise"
            THEN out(Exc(llm.exc, "provider call failed"), 1, msg, <<>>, <<>>)
            ELSE IF llm.text = <<>>
            THEN out(Exc("ValueError", "Claude returned no text"), 1, msg, <<>>, <<>>)
            ELSE
            LET parsed == _parse_title_and_body(strip(llm.text))
                title == IF parsed.title = <<>> /\ kw.category \in DOMAIN TITLE_BY_CATEGORY
                         THEN TITLE_BY_CATEGORY[kw.category] ELSE parsed.title
            IN  out(NoExc, 1, msg, title, _cap_to_chars(parsed.body, STORY_MAX_CHARS))

\* What the provider may answer when asked.  messages.create raises whatever
\* the client library or the transport raises: an exception outside the
\* ValueError family (APIError) or inside it (a response that fails to decode
\* or to validate); except: logs it and raises it again.
ProviderExceptions == {"APIError", "ValueError"}
LLMRaises == {[kind |-> "raise", text |-> <<>>, exc |-> e] : e \in ProviderExceptions}
LLMText(text) == [kind |-> "text", text |-> text, exc |-> None]
LLMOutcomes ==
    LLMRaises \cup {LLMText(<<>>), LLMText(<<"TITLE:", " ", "a", "\n", "\n", "b">>)}


\* ------------------------------------------- app/core/story_prompts.py
\* A prompt is its template (the stage) and the values filled in.  ", ".join of
\* the themes is kept as the list; an empty list reads as the word given.
JoinOr(themes, word) == IF themes = <<>> THEN <<word>> ELSE themes

get_user_prompt_initial(user_data) ==
    [kind |-> "stage_prompt", stage |-> "Initial",
     loc |-> user_data.location, energy |-> user_data.energyWord,
     loved |-> user_data.lovedOne, cat |-> user_data.desireCategory,
     desc |-> user_data.desireDescription, n |-> user_data.storyCount]

get_user_prompt_deepening(user_data) ==
    [kind |-> "stage_prompt", stage |-> "Deepening",
     loc |-> user_data.location, energy |-> user_data.energyWord,
     loved |-> user_data.lovedOne, cat |-> user_data.desireCategory,
     desc |-> user_data.desireDescription, n |-> user_data.storyCount,
     prev |-> JoinOr(user_data.previousStoryThemes, "None yet")]

get_user_prompt_surreal(user_data) ==
    [kind |-> "stage_prompt", stage |-> "Surreal",
     loc |-> user_data.location, energy |-> user_data.energyWord,
     loved |-> user_data.lovedOne, cat |-> user_data.desireCategory,
     desc |-> user_data.desireDescription, n |-> user_data.storyCount,
     prev |-> JoinOr(user_data.previousStoryThemes, "None")]

get_user_prompt_mythic(user_data) ==
    [kind |-> "stage_prompt", stage |-> "Mythic",
     loc |-> user_data.location, energy |-> user_data.energyWord,
     loved |-> user_data.lovedOne, cat |-> user_data.desireCategory,
     desc |-> user_data.desireDescription, n |-> user_data.storyCount,
     prev |-> JoinOr(user_data.previousStoryThemes, "None")]

\* A slip in the stage boundaries: < where the selector uses <=.
get_story_user_prompt_OffByOne(story_count, user_data) ==
    IF story_count < 2 THEN get_user_prompt_initial(user_data)
    ELSE IF story_count < 4 THEN get_user_prompt_deepening(user_data)
    ELSE IF story_count < 6 THEN get_user_prompt_surreal(user_data)
    ELSE get_user_prompt_mythic(user_data)

get_story_user_prompt(story_count, user_data) ==
    IF story_count <= 2 THEN get_user_prompt_initial(user_data)
    ELSE IF story_count <= 4 THEN get_user_prompt_deepening(user_data)
    ELSE IF story_count <= 6 THEN get_user_prompt_surreal(user_data)
    ELSE get_user_prompt_mythic(user_data)

\* --------------------------------------------------- app/api/stories.py
\* A slip in the request model: check_energy_and_category left out.
GenerateStoryRequest_NoEnumCheck(body) ==
    /\ body.name # ""
    /\ body.location # ""
    /\ body.desireDescription # ""

\* GenerateStoryRequest: the Field constraints and check_energy_and_category.
GenerateStoryRequest(body) ==
    /\ body.name # ""
    /\ body.location # ""
    /\ body.desireDescription # ""
    /\ body.energyWord \in ENERGY_WORDS
    /\ body.desireCategory \in CATEGORIES

Blank(sub_id) == sub_id \in {None, "", " "}

\* A slip in the test of the stored subscription id.
_user_has_subscription_Inverted(users, user_id) ==
    LET rows == IF user_id \in DOMAIN users THEN <<users[user_id]>> ELSE <<>>
    IN  IF rows = <<>> THEN FALSE ELSE Blank(rows[1].stripe_subscription_id)

_user_has_subscription(users, user_id) ==
    LET rows == IF user_id \in DOMAIN users THEN <<users[user_id]>> ELSE <<>>
    IN  IF rows = <<>> THEN FALSE ELSE ~Blank(rows[1].stripe_subscription_id)

\* A slip in the range filter: gt where the handler uses gte.
_count_stories_generated_today_Strict(stories, user_id, t) ==
    LET today_start == t - (t % DayLen)
    IN  Cardinality({i \in DOMAIN stories :
            stories[i].user_id = user_id /\ stories[i].created_at > today_start})

_count_stories_generated_today(stories, user_id, t) ==
    LET today_start == t - (t % DayLen)
    IN  Cardinality({i \in DOMAIN stories :
            stories[i].user_id = user_id /\ stories[i].created_at >= today_start})

\* [exc |-> status code or 0, id |-> the id found]
_get_desire_id_by_name(desires, category) ==
    LET rows == {d \in desires : d.desireCategory = category}
    IN  IF rows = {}
        THEN [exc |-> 404, id |-> 0]
        ELSE [exc |-> 0, id |-> (CHOOSE d \in rows : TRUE).id]

\* A slip in the history filter: the eq on desire_id left out.
RECURSIVE SelectHistory_AnyCategory(_, _, _)
SelectHistory_AnyCategory(stories, user_id, desire_id) ==
    IF stories = <<>> THEN <<>>
    ELSE LET s == Head(stories)
             tl == SelectHistory_AnyCategory(Tail(stories), user_id, desire_id)
         IN  IF s.user_id = user_id
             THEN <<[id |-> s.id, theme |-> s.theme]>> \o tl ELSE tl

\* select("id", "theme").eq("user_id", ..).eq("desire_id", ..).order("id")
RECURSIVE SelectHistory(_, _, _)
SelectHistory(stories, user_id, desire_id) ==
    IF stories = <<>> THEN <<>>
    ELSE LET s == Head(stories)
             tl == SelectHistory(Tail(stories), user_id, desire_id)
         IN  IF s.user_id = user_id /\ s.desire_id = desire_id
             THEN <<[id |-> s.id, theme |-> s.theme]>> \o tl ELSE tl

\* A slip in the theme filter: blank themes kept (trimmed) in the list.
RECURSIVE ThemesOf_KeepsBlank(_)
ThemesOf_KeepsBlank(rows) ==
    IF rows = <<>> THEN <<>>
    ELSE <<strip(Head(rows).theme)>> \o ThemesOf_KeepsBlank(Tail(rows))

\* [(s.get("theme") or "").strip() for s in rows if (s.get("theme") or "").strip()]
RECURSIVE ThemesOf(_)
ThemesOf(rows) ==
    IF rows = <<>> THEN <<>>
    ELSE IF strip(Head(rows).theme) # <<>>
         THEN <<strip(Head(rows).theme)>> \o ThemesOf(Tail(rows))
         ELSE ThemesOf(Tail(rows))

\* The keyword arguments of the generate_story call of generate_story_content.
CallKwargs(body, story_count, themes) ==
    [name |-> body.name, location |-> body.location, energyWord |-> body.energyWord,
     desireCategory |-> body.desireCategory,
     desireDescription |-> body.desireDescription, lovedOne |-> body.lovedOne,
     storyCount |-> story_count, previousStoryThemes |-> themes]

\* except ValueError / except Exception around the generate_story call.
GenerationFailureStatus(exc) ==
    IF exc.type = "ValueError"
    THEN IF exc.msg = "ANTHROPIC_API_KEY is not set" THEN 503 ELSE 400
    ELSE 502

\* History variables: the facts of the datastore at the moment a handler reads,
\* counted by calendar day and by category label.
Day(t) == t \div DayLen
CategoryOfId(desire_id) ==
    {d.desireCategory : d \in {e \in Desires : e.id = desire_id}}
StoriesOf(u) == {i \in DOMAIN Stories : Stories[i].user_id = u}
StoriesOfDay(u, d) == {i \in StoriesOf(u) : Day(Stories[i].created_at) = d}
StoriesOfPair(u, c) == {i \in StoriesOf(u) : c \in CategoryOfId(Stories[i].desire_id)}
Snapshot(u, c) ==
    [today |-> Cardinality(StoriesOfDay(u, Day(now))),
     other |-> Cardinality(StoriesOfDay(u, Day(now)) \ StoriesOfPair(u, c)),
     old |-> Cardinality({i \in StoriesOf(u) : Day(Stories[i].created_at) < Day(now)}),
     pair |-> Cardinality(StoriesOfPair(u, c)),
     user |-> Cardinality(StoriesOf(u)),
     others |-> Len(Stories) - Cardinality(StoriesOf(u))]
SnapshotFor(q) == Snapshot(q.body.user_id, q.body.desireCategory)

Called(q, what) == [q EXCEPT !.calls = Append(q.calls, what)]
Did(q, what) == \E i \in DOMAIN q.calls : q.calls[i] = what

\* -- the request arrives; pydantic validates the body
Start(r, body) ==
    /\ req[r].pc = "idle"
    /\ LET others == {o \in ReqIds \ {r} :
                        Running(req[o]) /\ req[o].body.user_id = body.user_id}
           q == [IdleReq EXCEPT !.body = body, !.overlap = (others # {})]
       IN  req' = [o \in ReqIds |->
                    IF o = r
                    THEN IF GenerateStoryRequest(body)
                         THEN [q EXCEPT !.pc = "quota"]
                         ELSE Fail(q, 422, "validation")
                    ELSE IF o \in others THEN [req[o] EXCEPT !.overlap = TRUE]
                    ELSE req[o]]
    /\ UNCHANGED <<Users, Desires, Stories, now, settings, call>>

\* A handler that swallows the exception of the Users read and goes on.
AfterSubscriptionRead_FailOpen(q0, ok) ==
    LET q == Called(q0, "Users.select")
        has == IF ok THEN _user_has_subscription(Users, q.body.user_id) ELSE TRUE
    IN  [q EXCEPT !.has_sub = has,
                  !.pc = IF has THEN "lookup" ELSE "count",
                  !.got = IF ~ok THEN {"quota"}
                          ELSE IF has THEN {"sub", "quota"} ELSE {"sub"},
                  !.seen_status = Users[q.body.user_id].subscription_status,
                  !.seen_quota = SnapshotFor(q)]

\* -- _user_has_subscription(supabase, user_id): one read of Users.  Nothing
\* catches an exception of the read: it ends the request (HTTP 500).
AfterSubscriptionRead(q0, ok) ==
    LET q == Called(q0, "Users.select")
    IN  IF ~ok THEN Fail(q, 500, "Users read raised")
        ELSE LET has == _user_has_subscription(Users, q.body.user_id)
             IN  [q EXCEPT !.has_sub = has,
                           !.pc = IF has THEN "lookup" ELSE "count",
                           !.got = IF has THEN {"sub", "quota"} ELSE {"sub"},
                           !.seen_status = Users[q.body.user_id].subscription_status,
                           !.seen_quota = SnapshotFor(q)]

ReadSubscription(r) ==
    /\ req[r].pc = "quota"
    /\ \E ok \in BOOLEAN : req' = [req EXCEPT ![r] = AfterSubscriptionRead(req[r], ok)]
    /\ UNCHANGED <<Users, Desires, Stories, now, settings, call>>

\* A slip in the limit: a second story a day.
AfterCountRead_LimitTwo(q0, ok) ==
    LET q == Called(q0, "Stories.count")
    IN  IF ~ok THEN Fail(q, 500, "Stories read raised")
        ELSE LET today_count ==
                     _count_stories_generated_today(Stories, q.body.user_id, now)
                 q1 == [q EXCEPT !.today_count = today_count,
                                 !.got = @ \cup {"count"},
                                 !.seen_quota = SnapshotFor(q)]
             IN  IF today_count >= 2
                 THEN Fail(q1, 403, "Non-subscribers can generate only 1 story per day")
                 ELSE [q1 EXCEPT !.pc = "lookup", !.got = @ \cup {"quota"}]

\* -- _count_stories_generated_today(supabase, user_id): one read of Stories
AfterCountRead(q0, ok) ==
    LET q == Called(q0, "Stories.count")
    IN  IF ~ok THEN Fail(q, 500, "Stories read raised")
        ELSE LET today_count ==
                     _count_stories_generated_today(Stories, q.body.user_id, now)
                 q1 == [q EXCEPT !.today_count = today_count,
                                 !.got = @ \cup {"count"},
                                 !.seen_quota = SnapshotFor(q)]
             IN  IF today_count >= 1
                 THEN Fail(q1, 403, "Non-subscribers can generate only 1 story per day")
                 ELSE [q1 EXCEPT !.pc = "lookup", !.got = @ \cup {"quota"}]

CountToday(r) ==
    /\ req[r].pc = "count"
    /\ \E ok \in BOOLEAN : req' = [req EXCEPT ![r] = AfterCountRead(req[r], ok)]
    /\ UNCHANGED <<Users, Desires, Stories, now, settings, call>>

\* detail=f"No desire found for category {category!r}. Add a row ..."
NoDesireDetail(category) == "No desire found for category '" \o category \o "'"

\* A slip in the lookup: a label without a row goes on with no desire id.
AfterDesireRead_GoesOn(q0, ok) ==
    LET q == Called(q0, "Desires.select")
    IN  IF ~ok THEN Fail(q, 500, "Desires read raised")
        ELSE LET found == _get_desire_id_by_name(Desires, q.body.desireCategory)
             IN  [q EXCEPT !.desire_id = found.id, !.pc = "history",
                           !.got = @ \cup {"desire"}]

\* -- _get_desire_id_by_name(supabase, desireCategory): one read of Desires
AfterDesireRead(q0, ok) ==
    LET q == Called(q0, "Desires.select")
    IN  IF ~ok THEN Fail(q, 500, "Desires read raised")
        ELSE LET found == _get_desire_id_by_name(Desires, q.body.desireCategory)
             IN  IF found.exc # 0
                 THEN Fail(q, found.exc, NoDesireDetail(q.body.desireCategory))
                 ELSE [q EXCEPT !.desire_id = found.id, !.pc = "history",
                                !.got = @ \cup {"desire"}]

GetDesireId(r) ==
    /\ req[r].pc = "lookup"
    /\ \E ok \in BOOLEAN : req' = [req EXCEPT ![r] = AfterDesireRead(req[r], ok)]
    /\ UNCHANGED <<Users, Desires, Stories, now, settings, call>>

\* A slip in the history step: the read issued a second time.
AfterHistoryRead_ReadTwice(q0, ok) ==
    LET q == Called(Called(q0, "Stories.select"), "Stories.select")
    IN  IF ~ok THEN Fail(q, 500, "Stories read raised")
        ELSE LET rows == SelectHistory(Stories, q.body.user_id, q.desire_id)
                 existing_count == Len(rows)
             IN  [q EXCEPT !.story_count = existing_count + 1,
                           !.previous_story_themes = ThemesOf(rows),
                           !.got = @ \cup {"history"},
                           !.seen_hist = SnapshotFor(q),
                           !.pc = "generate"]

\* -- the history read and the locals computed from it
AfterHistoryRead(q0, ok) ==
    LET q == Called(q0, "Stories.select")
    IN  IF ~ok THEN Fail(q, 500, "Stories read raised")
        ELSE LET rows == SelectHistory(Stories, q.body.user_id, q.desire_id)
                 existing_count == Len(rows)
             IN  [q EXCEPT !.story_count = existing_count + 1,
                           !.previous_story_themes = ThemesOf(rows),
                           !.got = @ \cup {"history"},
                           !.seen_hist = SnapshotFor(q),
                           !.pc = "generate"]

ReadHistory(r) ==
    /\ req[r].pc = "history"
    /\ \E ok \in BOOLEAN : req' = [req EXCEPT ![r] = AfterHistoryRead(req[r], ok)]
    /\ UNCHANGED <<Users, Desires, Stories, now, settings, call>>

\* -- try: await generate_story(...) / except, then the insert and the response.
\* st: settings; llm: the provider's answer if asked; ins: whether the
\* datastore accepts the insert; t: the clock; next_id: the id the datastore
\* assigns.  The result is the request record and the row inserted.
\* generate_story raises while its arguments are bound, before the handler
\* awaits anything, so the call, its except clauses and what follows are one step.
AfterGenerate(q, kw, g, llm, ins, t, next_id) ==
    LET q1 == [q EXCEPT !.kwargs = kw, !.llm = llm, !.ins = ins,
                        !.got = @ \cup {"call"},
                        !.calls = IF g.calls > 0 THEN Append(@, "messages.create") ELSE @,
                        !.provider_calls = g.calls, !.sent = g.user_message]
        q2 == Called(q1, "Stories.insert")
        row == [id |-> next_id, user_id |-> q.body.user_id, desire_id |-> q.desire_id,
                theme |-> g.title, story |-> g.body, created_at |-> t]
        \* rows = list(r.data or []); created = rows[0] if rows else {}:
        \* created.get("id") is None (written 0) when the insert returns no row
        created_id == IF ins = "ok" THEN next_id ELSE 0
    IN  IF g.exc # NoExc
        THEN [q |-> Fail(q1, GenerationFailureStatus(g.exc), g.exc.msg), row |-> row]
        ELSE IF ins = "raise"
        THEN [q |-> Fail(q2, 502, "Failed to store story"), row |-> row]
        ELSE [q |-> [q2 EXCEPT !.pc = "done", !.http = 200, !.inserted = next_id,
                               !.response = [id |-> created_id, theme |-> g.title,
                                             story |-> g.body]],
              row |-> row]

GenerateAndStore(q, st, llm, ins, t, next_id) ==
    LET kw == CallKwargs(q.body, q.story_count, q.previous_story_themes)
    IN  AfterGenerate(q, kw, generate_story(kw, st, llm), llm, ins, t, next_id)

\* What the datastore may answer to the insert: the row, an exception, or a
\* response without rows (the row is stored, r.data is empty).
InsertOutcomes == {"ok", "raise", "empty"}

\* A slip in the last step: the row stored whatever the generation did.
Generate_StoresOnFailure(r) ==
    /\ req[r].pc = "generate"
    /\ \E llm \in LLMOutcomes, ins \in InsertOutcomes :
         LET res == GenerateAndStore(req[r], settings, llm, ins, now, Len(Stories) + 1)
         IN  /\ req' = [req EXCEPT ![r] = res.q]
             /\ Stories' = Append(Stories, res.row)
    /\ UNCHANGED <<Users, Desires, now, settings, call>>

Generate(r) ==
    /\ req[r].pc = "generate"
    /\ \E llm \in LLMOutcomes, ins \in InsertOutcomes :
         LET res == GenerateAndStore(req[r], settings, llm, ins, now, Len(Stories) + 1)
         IN  /\ req' = [req EXCEPT ![r] = res.q]
             /\ Stories' = IF res.q.inserted = 0 THEN Stories
                           ELSE Append(Stories, res.row)
    /\ UNCHANGED <<Users, Desires, now, settings, call>>

\* -- the response is delivered; the slot serves the next request
Respond(r) ==
    /\ req[r].pc = "done"
    /\ req' = [req EXCEPT ![r] = IdleReq]
    /\ UNCHANGED <<Users, Desires, Stories, now, settings, call>>

\* -- time passes
Tick ==
    /\ now < MaxTime
    /\ now' = now + 1
    /\ UNCHANGED <<Users, Desires, Stories, settings, req, call>>

\* ---------------------------------------------- app/api/subscription.py
ActiveStatuses == {"active", "trialing"}

\* create_subscription, as far as the Users table goes.  at_stripe: the status
\* Stripe reports for the stored subscription (None: retrieve failed);
\* same_plan: the plan asked for is the current one; stripe_ok: the Stripe
\* write succeeds; new_status: the status of the subscription Stripe returns;
\* db_ok: the Users update succeeds (its failure is logged and swallowed).
create_subscription(users, u, at_stripe, same_plan, stripe_ok, new_status, db_ok) ==
    LET row == users[u]
        existing_sub_id == row.stripe_subscription_id
        change_plan == /\ existing_sub_id # None
                       /\ at_stripe \in ActiveStatuses
    IN  IF change_plan
        THEN IF same_plan \/ ~stripe_ok \/ ~db_ok THEN users
             ELSE [users EXCEPT ![u].subscription_status = new_status]
        ELSE IF ~stripe_ok \/ ~db_ok THEN users
             ELSE [users EXCEPT ![u] = [stripe_subscription_id |-> SubIdOf(u),
                                        subscription_status |-> new_status]]

\* create_subscription, as far as Stripe goes: the HTTP status, the
\* Subscription calls issued in order, and changed_plan of the response.
\* early: the status of a failure before step 3 (0: none); has_item: the
\* subscription retrieved has an item with an id.
create_subscription_calls(existing_sub_id, early, at_stripe, same_plan, has_item, stripe_ok) ==
    LET retrieve == IF existing_sub_id # None THEN <<"Subscription.retrieve">> ELSE <<>>
        create == [http |-> IF stripe_ok THEN 200 ELSE 502,
                   calls |-> Append(retrieve, "Subscription.create"),
                   changed_plan |-> FALSE]
    IN  IF early # 0 THEN [http |-> early, calls |-> <<>>, changed_plan |-> FALSE]
        ELSE IF existing_sub_id # None /\ at_stripe \in ActiveStatuses
        THEN IF same_plan
             THEN [http |-> 400, calls |-> retrieve, changed_plan |-> FALSE]
             ELSE IF ~has_item THEN create
             ELSE [http |-> IF stripe_ok THEN 200 ELSE 502,
                   calls |-> Append(retrieve, "Subscription.modify"),
                   changed_plan |-> stripe_ok]
        ELSE create

CreateSubscription(u) ==
    /\ Users' \in
         {create_subscription(Users, u, at_stripe, same_plan, stripe_ok, new_status, db_ok) :
            at_stripe \in StripeStatuses \cup {None}, same_plan \in BOOLEAN,
            stripe_ok \in BOOLEAN, new_status \in ActiveStatuses, db_ok \in BOOLEAN}
    /\ Users' # Users
    /\ UNCHANGED <<Desires, Stories, now, settings, req, call>>

\* stripe_webhook, event customer.subscription.updated
webhook_updated(users, subscription_id, status) ==
    [u \in DOMAIN users |->
        IF users[u].stripe_subscription_id = subscription_id
        THEN [users[u] EXCEPT !.subscription_status = status] ELSE users[u]]

WebhookSubscriptionUpdated(subscription_id, status) ==
    /\ Users' = webhook_updated(Users, subscription_id, status)
    /\ Users' # Users
    /\ UNCHANGED <<Desires, Stories, now, settings, req, call>>

\* stripe_webhook, event customer.subscription.deleted
webhook_deleted(users, subscription_id) ==
    [u \in DOMAIN users |->
        IF users[u].stripe_subscription_id = subscription_id
        THEN [users[u] EXCEPT !.subscription_status = "canceled"] ELSE users[u]]

WebhookSubscriptionDeleted(subscription_id) ==
    /\ Users' = webhook_deleted(Users, subscription_id)
    /\ Users' # Users
    /\ UNCHANGED <<Desires, Stories, now, settings, req, call>>

\* --------------------------------------------------- app/core/elevenlabs.py
\* NARRATION_SPEED_VALUES = {"low": 0.8, "normal": 1.0, "fast": 1.2}, in tenths.
NARRATION_SPEED_VALUES ==
    [k \in {"low", "normal", "fast"} |->
        CASE k = "low" -> 8 [] k = "normal" -> 10 [] k = "fast" -> 12]

\* -------------------------------------------------------- app/api/voice.py
\* narration_speed: Literal["slow", "normal", "very_fast", "fast"]
NarrationSpeeds == {"slow", "normal", "very_fast", "fast"}

\* pydantic validation of SpeakRequest
SpeakRequest(body) ==
    /\ body.voice_id # ""
    /\ body.narration_speed \in NarrationSpeeds

\* A speak request: its body, its locals (the playUrl read, 0: none; now_iso;
\* the speed passed on, in tenths) and its outcome (url 0: None); first_url
\* is the playUrl first stored for the story before the request arrived.
NoSpeakBody == [voice_id |-> "", story_id |-> 0, narration_speed |-> ""]
IdleSpeak ==
    [pc |-> "idle", body |-> NoSpeakBody, play_url |-> 0, now_iso |-> 0, speed |-> 0,
     http |-> 0, detail |-> "", url |-> 0, content_type |-> "",
     provider_calls |-> 0, first_url |-> 0]

SpeakFail(q, code, why) == [q EXCEPT !.pc = "done", !.http = code, !.detail = why]

\* Stories rows as /voice/speak sees them: with playUrl (0: none) and last_played.
SpeakRow(i, text, url) ==
    [id |-> i, user_id |-> 1, desire_id |-> 1, theme |-> <<"a">>, story |-> text,
     created_at |-> 0, playUrl |-> url, last_played |-> 0]

RowsOfId(stories, id) == SelectSeq(stories, LAMBDA row : row.id = id)

\* update({"last_played": now_iso}).eq("id", story_id)
UpdateLastPlayed(stories, id, t) ==
    [i \in DOMAIN stories |->
        IF stories[i].id = id THEN [stories[i] EXCEPT !.last_played = t] ELSE stories[i]]

\* update({"storage": path, "playUrl": public_url, "last_played": now_iso}).eq("id", story_id)
UpdatePlayUrl(stories, id, url, t) ==
    [i \in DOMAIN stories |->
        IF stories[i].id = id
        THEN [stories[i] EXCEPT !.playUrl = url, !.last_played = t] ELSE stories[i]]

\* -- speak, up to the await of text_to_speech: the read of story and playUrl,
\* the shortcut on a stored playUrl, the text check and the speed lookup.
\* Nothing catches an exception of the datastore calls or the KeyError of
\* the lookup: they end the request (HTTP 500).
speak(stories, q0, t, read_ok, upd_ok) ==
    LET rows == RowsOfId(stories, q0.body.story_id)
        play_url == IF rows = <<>> THEN 0 ELSE rows[1].playUrl
        q == [q0 EXCEPT !.now_iso = t, !.play_url = IF read_ok THEN play_url ELSE 0]
        text == IF rows = <<>> THEN <<>> ELSE strip(rows[1].story)
        speed == q.body.narration_speed
    IN  IF ~SpeakRequest(q0.body)
        THEN [q |-> SpeakFail([q0 EXCEPT !.now_iso = t], 422, "validation"),
              stories |-> stories]
        ELSE IF ~read_ok THEN [q |-> SpeakFail(q, 500, "Stories read raised"), stories |-> stories]
        ELSE IF play_url # 0
        THEN IF ~upd_ok
             THEN [q |-> SpeakFail(q, 500, "Stories update raised"), stories |-> stories]
             ELSE [q |-> [q EXCEPT !.pc = "done", !.http = 200, !.url = play_url,
                                   !.content_type = "audio/mpeg"],
                   stories |-> UpdateLastPlayed(stories, q.body.story_id, t)]
        ELSE IF text = <<>>
        THEN [q |-> SpeakFail(q, IF rows = <<>> THEN 404 ELSE 400,
                              "Story not found or has no story text"),
              stories |-> stories]
        ELSE IF speed \notin DOMAIN NARRATION_SPEED_VALUES
        THEN [q |-> SpeakFail(q, 500, "KeyError"), stories |-> stories]
        ELSE [q |-> [q EXCEPT !.pc = "tts", !.provider_calls = 1,
                              !.speed = NARRATION_SPEED_VALUES[speed]],
              stories |-> stories]

\* What text_to_speech may do, and what the upload and the update after it may do.
TTSOutcomes == {"ok", "HTTPStatusError", "RequestError"}
UploadOutcomes == {"ok", "upload raised", "update raised"}

\* -- speak, after the await: the httpx exceptions, the upload under a fresh
\* path (public_url is the url-th file uploaded), the update of the row.  An
\* exception of the upload or of the update is logged and swallowed.
speak_after_tts(stories, q, tts, up, url) ==
    IF tts = "HTTPStatusError"
    THEN [q |-> SpeakFail(q, 429, "ElevenLabs API error"), stories |-> stories]
    ELSE IF tts = "RequestError"
    THEN [q |-> SpeakFail(q, 502, "request error"), stories |-> stories]
    ELSE LET public_url == IF up = "upload raised" THEN 0 ELSE url
         IN  [q |-> [q EXCEPT !.pc = "done", !.http = 200, !.url = public_url,
                              !.content_type = "audio/mpeg"],
              stories |-> IF up = "ok"
                          THEN UpdatePlayUrl(stories, q.body.story_id, url, q.now_iso)
                          ELSE stories]

\* ------------------------------------------------------- specifications
NoCall == [fn |-> None]

InitCommon ==
    /\ Users = [u \in UserIds |->
                 [stripe_subscription_id |-> None, subscription_status |-> None]]
    /\ Desires = InitDesires
    /\ now = DayLen
    /\ req = [r \in ReqIds |-> IdleReq]
    /\ call = NoCall

\* The settings a deployment may run with: the provider key set or left "".
Configured == [ANTHROPIC_API_KEY |-> "sk-key", STORY_SYSTEM_PROMPT |-> "prompt"]
Unconfigured == [ANTHROPIC_API_KEY |-> "", STORY_SYSTEM_PROMPT |-> "prompt"]

Init ==
    /\ InitCommon
    /\ settings \in {Configured, Unconfigured}
    /\ \E n \in 0..MaxInitStories : \E tb \in InitTables(n) : Stories = AsStories(tb)

\* One request at a time: a request starts when no other is in flight.
StartAlone(r, body) ==
    /\ \A o \in ReqIds : req[o].pc = "idle"
    /\ Start(r, body)

Pipeline(r) ==
    \/ ReadSubscription(r)
    \/ CountToday(r)
    \/ GetDesireId(r)
    \/ ReadHistory(r)
    \/ Generate(r)
    \/ Respond(r)

Subscriptions ==
    \/ \E u \in Clients : CreateSubscription(u)
    \/ \E u \in Clients, st \in StripeStatuses : WebhookSubscriptionUpdated(SubIdOf(u), st)
    \/ \E u \in Clients : WebhookSubscriptionDeleted(SubIdOf(u))

Next ==
    \/ \E body \in {b \in Bodies : b.user_id \in Clients} : StartAlone("r1", body)
    \/ Pipeline("r1")
    \/ Subscriptions
    \/ Tick

Spec == Init /\ [][Next]_vars

\* -- SpecRace: two requests in flight at once, on a datastore nobody else
\* touches meanwhile.
InitRace ==
    /\ InitCommon
    /\ settings = Configured
    /\ \E n \in 0..1 : \E tb \in InitTables(n) : Stories = AsStories(tb)

PipelineRace(r) ==
    \/ ReadSubscription(r)
    \/ CountToday(r)
    \/ GetDesireId(r)
    \/ ReadHistory(r)
    \/ Generate(r)

NextRace ==
    \/ \E r \in ReqIds : \E body \in {b \in ValidBodies : b.user_id \in Clients} :
         Start(r, body)
    \/ \E r \in ReqIds : PipelineRace(r)

SpecRace == InitRace /\ [][NextRace]_vars

\* -- SpecStage: the stage selector applied to every story count and user data
StageUserData ==
    {[location |-> loc, energyWord |-> "Powerful", lovedOne |-> loved,
      desireCategory |-> cat, desireDescription |-> "I ran five miles",
      storyCount |-> n, previousStoryThemes |-> prev] :
        loc \in {"Paris", "Lima"}, loved \in {"Not provided", "Sam"},
        cat \in {"Love", "Money"}, n \in 1..MaxSeq,
        prev \in {<<>>, <<<<"a">>>>, <<<<"a">>, <<"b">>>>}}

InitStage ==
    /\ InitCommon
    /\ settings = Configured
    /\ Stories = <<>>

SelectPrompt(user_data) ==
    /\ call' = [fn |-> "get_story_user_prompt", story_count |-> user_data.storyCount,
                user_data |-> user_data,
                result |-> get_story_user_prompt(user_data.storyCount, user_data)]
    /\ UNCHANGED <<Users, Desires, Stories, now, settings, req>>

NextStage == \E user_data \in StageUserData : SelectPrompt(user_data)

SpecStage == InitStage /\ [][NextStage]_vars

\* -- SpecGen: the generation step of generate_story_content (the call of
\* generate_story, its except clauses, the insert and the response) applied
\* to a request that passed the reads, for every settings, provider answer
\* and insert answer, with the keyword arguments the handler passes and with
\* the arguments the signature of generate_story takes.
NoPrompt == [ANTHROPIC_API_KEY |-> "sk-key", STORY_SYSTEM_PROMPT |-> ""]
GenSettings == {Configured, Unconfigured, NoPrompt}
GenLLMOutcomes == LLMOutcomes \cup {LLMText(<<"a", "\n", "b">>)}
GenLovedOnes == {None, "Sam"}
\* generate_story takes any category label: two of the catalog and one that
\* TITLE_BY_CATEGORY does not hold.
GenDesires == InitDesires \cup {[id |-> 3, desireCategory |-> "Travel"]}

\* A request of user 1 for a category of the catalog, after its four reads.
GenReq(d, loved) ==
    [IdleReq EXCEPT
        !.pc = "generate",
        !.body = [ValidBody(1, d.desireCategory) EXCEPT !.lovedOne = loved],
        !.has_sub = FALSE, !.today_count = 0, !.desire_id = d.id,
        !.story_count = 1, !.previous_story_themes = <<>>,
        !.calls = <<"Users.select", "Stories.count", "Desires.select", "Stories.select">>,
        !.got = {"sub", "count", "quota", "desire", "history"}]

\* The request's values under the parameter names of generate_story.
BoundKwargs(body) ==
    [first_name |-> body.name, dream_place |-> body.location,
     energy_word |-> body.energyWord, category |-> body.desireCategory,
     describe_whats_already_yours |-> body.desireDescription,
     someone_you_love |-> body.lovedOne]

InitGen ==
    /\ InitCommon
    /\ settings = Configured
    /\ Stories = <<>>

ApplyGenerate(d, loved, bound, st, llm, ins) ==
    /\ LET q == GenReq(d, loved)
           kw == IF bound THEN BoundKwargs(q.body)
                 ELSE CallKwargs(q.body, q.story_count, q.previous_story_themes)
           res == AfterGenerate(q, kw, generate_story(kw, st, llm), llm, ins, now, 1)
       IN  call' = [fn |-> "generate_story", bound |-> bound, st |-> st,
                    q |-> res.q, row |-> res.row]
    /\ UNCHANGED <<Users, Desires, Stories, now, settings, req>>

NextGen ==
    \E d \in GenDesires, loved \in GenLovedOnes, bound \in BOOLEAN,
       st \in GenSettings, llm \in GenLLMOutcomes, ins \in InsertOutcomes :
        ApplyGenerate(d, loved, bound, st, llm, ins)

SpecGen == InitGen /\ [][NextGen]_vars

\* -- SpecParse: _parse_title_and_body applied to every text of up to MaxLen
\* elements: labels, blanks, newlines and letters.
ParseAlphabet == {"TITLE:", "title:", "THEME:", " ", "\n", "a", "b"}
ParseTexts == UNION {[1..n -> ParseAlphabet] : n \in 0..MaxLen}

InitParse ==
    /\ Users = [u \in UserIds |->
                 [stripe_subscription_id |-> None, subscription_status |-> None]]
    /\ Desires = InitDesires
    /\ now = DayLen
    /\ req = [r \in ReqIds |-> IdleReq]
    /\ settings = Configured
    /\ Stories = <<>>
    /\ call \in {[fn |-> "text", raw |-> raw] : raw \in ParseTexts}

ParseText ==
    /\ call.fn = "text"
    /\ call' = [fn |-> "_parse_title_and_body", raw |-> call.raw,
                result |-> _parse_title_and_body(call.raw)]
    /\ UNCHANGED <<Users, Desires, Stories, now, settings, req>>

NextParse == ParseText

SpecParse == InitParse /\ [][NextParse]_vars

\* -- SpecCap: _cap_to_chars applied to every body of up to MaxCapLen
\* characters under every budget up to MaxBudget, and to bodies of 3000
\* characters under STORY_MAX_CHARS.
CapAlphabet == {"a", " ", "\n"}
CapTexts == UNION {[1..n -> CapAlphabet] : n \in 0..MaxCapLen}
LongLen == 3000
LongTexts ==
    {[i \in 1..LongLen |-> IF i <= k THEN "a" ELSE ws] :
        k \in {STORY_MAX_CHARS - 10, STORY_MAX_CHARS - 1, STORY_MAX_CHARS, LongLen},
        ws \in Whitespace}
CapInputs ==
    {[fn |-> "body", text |-> t, max_chars |-> m] : t \in CapTexts, m \in 0..MaxBudget}
    \cup {[fn |-> "body", text |-> t, max_chars |-> STORY_MAX_CHARS] : t \in LongTexts}

InitCap ==
    /\ Users = [u \in UserIds |->
                 [stripe_subscription_id |-> None, subscription_status |-> None]]
    /\ Desires = InitDesires
    /\ now = DayLen
    /\ req = [r \in ReqIds |-> IdleReq]
    /\ settings = Configured
    /\ Stories = <<>>
    /\ call \in CapInputs

CapBody ==
    /\ call.fn = "body"
    /\ call' = [fn |-> "_cap_to_chars", text |-> call.text, max_chars |-> call.max_chars,
                result |-> _cap_to_chars(call.text, call.max_chars)]
    /\ UNCHANGED <<Users, Desires, Stories, now, settings, req>>

NextCap == CapBody

SpecCap == InitCap /\ [][NextCap]_vars

\* -- SpecHist: the history read of a request that reached it, over every
\* Stories table of up to MaxHistRows rows whose themes are empty, blank,
\* padded or plain.
HistThemes == {<<>>, <<" ">>, <<" ", "a">>, <<"b">>}
HistTables ==
    UNION {[1..n -> [user_id : UserIds, desire_id : DesireIds, theme : HistThemes,
                     created_at : {DayLen - 1}]] : n \in 0..MaxHistRows}

\* A request of user 1, subscribed, that passed the Users and Desires reads.
AtHistoryStep(c) ==
    AfterDesireRead(
        AfterSubscriptionRead([IdleReq EXCEPT !.body = ValidBody(1, c), !.pc = "quota"],
                              TRUE),
        TRUE)

InitHist ==
    /\ Users = [u \in UserIds |->
                 [stripe_subscription_id |-> SubIdOf(u), subscription_status |-> "active"]]
    /\ Desires = InitDesires
    /\ now = DayLen
    /\ settings = Configured
    /\ call = NoCall
    /\ Stories \in {AsStories(tb) : tb \in HistTables}
    /\ \E c \in {d.desireCategory : d \in InitDesires} :
          req = [r \in ReqIds |-> IF r = "r1" THEN AtHistoryStep(c) ELSE IdleReq]

NextHist == ReadHistory("r1")

SpecHist == InitHist /\ [][NextHist]_vars

\* -- SpecSpeak: POST /voice/speak, two requests in flight at a time, served
\* again and again; story 1 has text, story 2 a blank text, story 3 no row.
\* call counts the files uploaded and keeps the playUrl first stored.
SpeakIds == {"s1", "s2"}
SpeakBodies ==
    [voice_id : {"v1"}, story_id : {1, 2, 3}, narration_speed : NarrationSpeeds \cup {"low"}]

InitSpeak ==
    /\ Users = [u \in UserIds |->
                 [stripe_subscription_id |-> None, subscription_status |-> None]]
    /\ Desires = InitDesires
    /\ now = DayLen
    /\ settings = Configured
    /\ req = [r \in SpeakIds |-> IdleSpeak]
    /\ \E url \in {0, 1} :
          /\ Stories = <<SpeakRow(1, <<"s">>, url), SpeakRow(2, <<" ">>, 0)>>
          /\ call = [fn |-> "speak", uploads |-> url, first_url |-> url]

Speak(r) ==
    /\ req[r].pc = "idle"
    /\ \E body \in SpeakBodies, read_ok \in BOOLEAN, upd_ok \in BOOLEAN :
         LET q0 == [IdleSpeak EXCEPT !.body = body, !.first_url = call.first_url]
             res == speak(Stories, q0, now, read_ok, upd_ok)
         IN  /\ req' = [req EXCEPT ![r] = res.q]
             /\ Stories' = res.stories
    /\ UNCHANGED <<Users, Desires, now, settings, call>>

SpeakAfterTTS(r) ==
    /\ req[r].pc = "tts"
    /\ call.uploads < MaxUploads
    /\ \E tts \in TTSOutcomes, up \in UploadOutcomes :
         LET uploaded == tts = "ok" /\ up # "upload raised"
             url == call.uploads + 1
             res == speak_after_tts(Stories, req[r], tts, up, url)
         IN  /\ req' = [req EXCEPT ![r] = res.q]
             /\ Stories' = res.stories
             /\ call' = [call EXCEPT
                            !.uploads = IF uploaded THEN url ELSE @,
                            !.first_url = IF @ = 0 /\ tts = "ok" /\ up = "ok" THEN url ELSE @]
    /\ UNCHANGED <<Users, Desires, now, settings>>

SpeakRespond(r) ==
    /\ req[r].pc = "done"
    /\ req' = [req EXCEPT ![r] = IdleSpeak]
    /\ UNCHANGED <<Users, Desires, Stories, now, settings, call>>

NextSpeak ==
    \E r \in SpeakIds :
        \/ Speak(r)
        \/ SpeakAfterTTS(r)
        \/ SpeakRespond(r)

SpecSpeak == InitSpeak /\ [][NextSpeak]_vars

\* -- SpecSub: POST /subscription/create for user 1, for every stored
\* subscription and every answer of Stripe and of the datastore.
\* stripe_status: the status of the stored subscription at Stripe;
\* retrieve_ok: Subscription.retrieve returns it (_retrieve_subscription_for_update
\* returns None on a StripeError).
StoredSubscriptions ==
    {[stripe_subscription_id |-> None, subscription_status |-> None]}
    \cup {[stripe_subscription_id |-> SubIdOf(1), subscription_status |-> st] :
            st \in StripeStatuses}
SubInputs ==
    [fn : {"request"}, early : {0, 502}, stripe_status : StripeStatuses,
     retrieve_ok : BOOLEAN, same_plan : BOOLEAN, has_item : BOOLEAN,
     stripe_ok : BOOLEAN, new_status : ActiveStatuses, db_ok : BOOLEAN]

InitSub ==
    /\ \E row \in StoredSubscriptions :
          Users = [u \in UserIds |->
                    IF u = 1 THEN row
                    ELSE [stripe_subscription_id |-> None, subscription_status |-> None]]
    /\ Desires = InitDesires
    /\ now = DayLen
    /\ req = [r \in ReqIds |-> IdleReq]
    /\ settings = Configured
    /\ Stories = <<>>
    /\ call \in SubInputs

ApplyCreateSubscription ==
    /\ call.fn = "request"
    /\ LET at_stripe == IF call.retrieve_ok THEN call.stripe_status ELSE None
           res == create_subscription_calls(Users[1].stripe_subscription_id, call.early,
                                            at_stripe, call.same_plan, call.has_item,
                                            call.stripe_ok)
       IN  /\ call' = [fn |-> "create_subscription", before |-> Users[1], input |-> call,
                        http |-> res.http, calls |-> res.calls,
                        changed_plan |-> res.changed_plan]
           /\ Users' = IF call.early # 0 THEN Users
                       ELSE create_subscription(Users, 1, at_stripe, call.same_plan,
                                                call.stripe_ok, call.new_status, call.db_ok)
    /\ UNCHANGED <<Desires, Stories, now, settings, req>>

NextSub == ApplyCreateSubscription

SpecSub == InitSub /\ [][NextSub]_vars


\* ================================================================ claims
\* A request the quota policy treated as not subscribed: the count was read.
NotSubscribed(q) == "count" \in q.got
PassedQuota(q) == "quota" \in q.got
Cooperative(q) ==
    /\ "call" \in q.got
    /\ settings.ANTHROPIC_API_KEY # ""
    /\ q.llm.kind = "text" /\ q.llm.text # <<>>
    /\ q.ins = "ok"

\* A request of a user treated as not subscribed, made when a Story of that
\* user already exists in the current UTC day, ends with HTTP 403 without a
\* provider call and without an insert.
C1_Denied ==
    \A r \in ReqIds :
        LET q == req[r]
        IN  (NotSubscribed(q) /\ q.seen_quota.today >= 1) =>
                /\ q.pc = "done" /\ q.http = 403
                /\ q.provider_calls = 0 /\ q.inserted = 0
                /\ ~Did(q, "messages.create") /\ ~Did(q, "Stories.insert")

\* A request of such a user that does not overlap another of that user
\* inserts a Story only as the user's only Story of that day.
C1_InsertIsOnlyStoryOfDay ==
    \A r \in ReqIds :
        (/\ req[r].inserted = 0 /\ req'[r].inserted # 0
         /\ NotSubscribed(req'[r]) /\ ~req'[r].overlap) =>
            Cardinality({i \in DOMAIN Stories' :
                /\ Stories'[i].user_id = req'[r].body.user_id
                /\ Day(Stories'[i].created_at) = Day(now')}) = 1

\* C1: for a user treated as not subscribed, every request made when a Story
\* of that user already exists in the current UTC day ends with HTTP 403
\* without a provider call and without an insert, and no request that does
\* not overlap another leaves the user with more than one Story of the day.
C1_QuotaOncePerDay == [](C1_Denied) /\ [][C1_InsertIsOnlyStoryOfDay]_vars

C1_Witness ==
    \E r \in ReqIds :
        NotSubscribed(req[r]) /\ req[r].seen_quota.today >= 1 /\ req[r].http = 403

\* C2 (as claimed): a request of a user whose subscription status is free
\* (no status) or canceled passes the quota check iff the user has no Story
\* in the current UTC day.
C2_Original ==
    \A r \in ReqIds :
        LET q == req[r]
        IN  (/\ "sub" \in q.got
             /\ q.seen_status \in {None, "canceled"}
             /\ (PassedQuota(q) \/ q.http = 403)) =>
                (PassedQuota(q) <=> q.seen_quota.today = 0)

\* C3: a request of a user whose subscription status is active or trialing is
\* never denied by the quota check, whatever the number of the user's Stories
\* of the current UTC day.
C3_SubscribedNeverDenied ==
    \A r \in ReqIds :
        LET q == req[r]
        IN  ("sub" \in q.got /\ q.seen_status \in ActiveStatuses) =>
                /\ PassedQuota(q)
                /\ q.http # 403
                /\ ~Did(q, "Stories.count")

C3_Witness ==
    \E r \in ReqIds :
        /\ "sub" \in req[r].got
        /\ req[r].seen_status \in ActiveStatuses
        /\ req[r].seen_quota.today >= 1
        /\ PassedQuota(req[r])

\* C4 (as claimed): two requests of the same not-subscribed user that overlap
\* and both pass the quota check both insert their Story (when the provider
\* answers with text and the datastore accepts the inserts), so the user has
\* two Stories in the same UTC day.
C4_Original ==
    \A r1 \in ReqIds : \A r2 \in ReqIds \ {r1} :
        LET a == req[r1]
            b == req[r2]
        IN  (/\ a.pc = "done" /\ b.pc = "done"
             /\ a.body.user_id = b.body.user_id
             /\ a.overlap /\ b.overlap
             /\ NotSubscribed(a) /\ NotSubscribed(b)
             /\ PassedQuota(a) /\ PassedQuota(b)
             /\ Cooperative(a) /\ Cooperative(b)) =>
                /\ a.inserted # 0 /\ b.inserted # 0
                /\ Cardinality(StoriesOfDay(a.body.user_id, Day(now))) >= 2

\* The read of the Users row, or one of the two reads of the quota check, raised.
SubscriptionReadFailed(q) == q.pc = "done" /\ q.detail = "Users read raised"
QuotaReadFailed(q) ==
    /\ q.pc = "done" /\ q.http = 500
    /\ q.detail \in {"Users read raised", "Stories read raised"}
    /\ ~PassedQuota(q)

\* C5 (as claimed): a request whose read of the subscription state failed is
\* handled as a request of a not-subscribed user: the count of today's
\* Stories is read next.
C5_Original ==
    \A r \in ReqIds :
        SubscriptionReadFailed(req[r]) => Did(req[r], "Stories.count")

\* C5 (amended): a request whose read of the subscription state raised ends
\* with HTTP 500 with no other call made: no count read, no provider call, no
\* insert; and no request whose quota check failed at either read reaches
\* the provider or the insert.
C5_ReadFailureAborts ==
    \A r \in ReqIds :
        LET q == req[r]
        IN  /\ (Did(q, "Users.select") /\ "sub" \notin q.got) =>
                  /\ q.pc = "done" /\ q.http = 500
                  /\ q.calls = <<"Users.select">>
                  /\ ~PassedQuota(q)
            /\ QuotaReadFailed(q) =>
                  /\ q.provider_calls = 0 /\ q.inserted = 0
                  /\ ~Did(q, "messages.create") /\ ~Did(q, "Stories.insert")

C5_Witness ==
    \E r \in ReqIds :
        SubscriptionReadFailed(req[r]) /\ req[r].calls = <<"Users.select">>

\* C6: the count the quota check reads is the number of the user's Stories of
\* the current UTC day in all categories: a Story of today in another category
\* denies the request, and with Stories of earlier days only the request passes.
C6_CountIsTodayAllCategories ==
    \A r \in ReqIds :
        LET q == req[r]
        IN  "count" \in q.got =>
                /\ q.today_count = q.seen_quota.today
                /\ (q.seen_quota.other >= 1 => q.http = 403)
                /\ (q.seen_quota.today = 0 => PassedQuota(q))

C6_Witness ==
    \E r \in ReqIds :
        /\ "count" \in req[r].got
        /\ req[r].seen_quota.other >= 1
        /\ req[r].seen_quota.old >= 1
        /\ req[r].seen_quota.pair = 0
        /\ req[r].http = 403

\* C7: the sequence number computed for the new story, and passed to
\* generate_story as storyCount, is 1 plus the number of Stories of the same
\* user in the category asked for.
C7_SequencePerUserAndCategory ==
    \A r \in ReqIds :
        LET q == req[r]
        IN  /\ "history" \in q.got => q.story_count = q.seen_hist.pair + 1
            /\ "call" \in q.got => q.kwargs.storyCount = q.seen_hist.pair + 1

C7_Witness ==
    \E r \in ReqIds :
        /\ "call" \in req[r].got
        /\ req[r].kwargs.storyCount = 1
        /\ req[r].seen_hist.user >= 2

\* The stage the boundaries 1-2, 3-4, 5-6, 7+ assign to a story count.
C8_StageOf(n) ==
    CASE n \in {1, 2} -> "Initial"
      [] n \in {3, 4} -> "Deepening"
      [] n \in {5, 6} -> "Surreal"
      [] n >= 7 -> "Mythic"

\* C8: the stage selected is Initial for story counts 1 and 2, Deepening for
\* 3 and 4, Surreal for 5 and 6, Mythic from 7 on, whatever the user data.
C8_StageBySequence ==
    call.fn = "get_story_user_prompt" =>
        /\ call.result.stage = C8_StageOf(call.story_count)
        /\ call.result.n = call.story_count

C8_Witness ==
    /\ call.fn = "get_story_user_prompt"
    /\ call.story_count = 7
    /\ call.result.stage = "Mythic"

\* The user data of a request, as get_story_user_prompt takes it.
C9_UserData(q) ==
    [location |-> q.body.location, energyWord |-> q.body.energyWord,
     lovedOne |-> q.body.lovedOne, desireCategory |-> q.body.desireCategory,
     desireDescription |-> q.body.desireDescription,
     storyCount |-> q.story_count, previousStoryThemes |-> q.previous_story_themes]

\* C9 (as claimed): the user prompt sent to the provider by a request that
\* reached the generation call is the stage template of its sequence number,
\* filled with the sequence number and the prior themes.
C9_Original ==
    \A r \in ReqIds :
        LET q == req[r]
        IN  "call" \in q.got =>
                q.sent = get_story_user_prompt(q.story_count, C9_UserData(q))

\* C10 (as claimed): a valid request of a not-subscribed user with no Story
\* today, for a category of the catalog, with the provider configured and
\* answering with text and the insert accepted, ends with HTTP 200 after one
\* provider call and one insert, returning the id of the row.
C10_Original ==
    \A r \in ReqIds :
        LET q == req[r]
        IN  (/\ q.pc = "done"
             /\ NotSubscribed(q) /\ q.seen_quota.today = 0
             /\ Cooperative(q)) =>
                /\ q.http = 200
                /\ q.provider_calls = 1
                /\ q.inserted # 0
                /\ q.response.id = q.inserted

\* The external steps of a request, in the order of the handler.
C11_StepOrder ==
    <<"Users.select", "Stories.count", "Desires.select", "Stories.select",
      "messages.create", "Stories.insert">>
C11_Rank(what) == CHOOSE i \in DOMAIN C11_StepOrder : C11_StepOrder[i] = what

\* The calls made so far are in the handler's order with none repeated; a
\* failure ends the request; the provider is called only after the quota
\* check, the lookup and the history read returned; the insert is issued
\* only after generate_story returned.
C11_Ordered ==
    \A r \in ReqIds :
        LET q == req[r]
        IN  /\ \A i \in DOMAIN q.calls : \A j \in DOMAIN q.calls :
                  i < j => C11_Rank(q.calls[i]) < C11_Rank(q.calls[j])
            /\ q.http \notin {0, 200} => q.pc = "done"
            /\ Did(q, "messages.create") =>
                  {"quota", "desire", "history"} \subseteq q.got
            /\ Did(q, "Stories.insert") =>
                  /\ "call" \in q.got
                  /\ Did(q, "messages.create")
                  /\ q.http = 200 \/ q.detail = "Failed to store story"

\* A request that ended makes no further call.
C11_NoStepAfterEnd ==
    \A r \in ReqIds :
        req[r].pc = "done" =>
            req'[r].calls = req[r].calls \/ req'[r].pc = "idle"

\* C11: the external steps of one request happen in the order quota read,
\* category lookup, history read, provider call, insert, each at most once;
\* a step that fails ends the request and no later step is executed.
C11_FixedStepOrder == [](C11_Ordered) /\ [][C11_NoStepAfterEnd]_vars

C11_Witness ==
    \E r \in ReqIds :
        /\ req[r].pc = "done" /\ req[r].http = 404
        /\ req[r].calls = <<"Users.select", "Stories.count", "Desires.select">>

C13_KindOf(c) ==
    IF ~c.bound THEN "none"
    ELSE IF c.st.ANTHROPIC_API_KEY = "" THEN "NotConfigured"
    ELSE IF c.st.STORY_SYSTEM_PROMPT = "" THEN "none"
    ELSE IF c.q.llm.kind = "raise" \/ c.q.llm.text = <<>> THEN "UpstreamError"
    ELSE IF c.q.ins = "raise" THEN "StorageError"
    ELSE "none"

\* Every (kind, status) pair the generation step yields.
C13_Outcomes ==
    LET d == CHOOSE e \in InitDesires : TRUE
        q == GenReq(d, None)
        kw == BoundKwargs(q.body)
        out(st, llm, ins) ==
            AfterGenerate(q, kw, generate_story(kw, st, llm), llm, ins, now, 1).q
    IN  {[kind |-> C13_KindOf([bound |-> TRUE, st |-> st, q |-> out(st, llm, ins)]),
          http |-> out(st, llm, ins).http] :
            st \in GenSettings, llm \in GenLLMOutcomes, ins \in InsertOutcomes}

C15_Original ==
    \A r \in ReqIds :
        LET q == req[r]
        IN  ("call" \in q.got /\ settings.ANTHROPIC_API_KEY = "") =>
                (q.http = 503 /\ q.provider_calls = 0 /\ q.inserted = 0)

C17_Original ==
    \A r \in ReqIds :
        LET q == req[r]
        IN  (/\ "call" \in q.got
             /\ settings.ANTHROPIC_API_KEY # ""
             /\ q.llm.kind = "text" /\ q.llm.text # <<>>
             /\ q.ins = "raise") =>
                /\ q.http = 502 /\ q.detail = "Failed to store story"
                /\ q.provider_calls = 1
                /\ Did(q, "Stories.insert") /\ q.inserted = 0

\* C18: a request whose category label has no row in Desires ends at the
\* lookup with HTTP 404 and a message naming the label, without a provider
\* call and without an insert.
C18_NoCatalogRow(q) ==
    /\ Did(q, "Desires.select")
    /\ q.detail # "Desires read raised"
    /\ \A d \in Desires : d.desireCategory # q.body.desireCategory

C18_UnknownCategoryNotFound ==
    \A r \in ReqIds :
        LET q == req[r]
        IN  C18_NoCatalogRow(q) =>
                /\ q.pc = "done" /\ q.http = 404
                /\ q.detail = "No desire found for category '" \o q.body.desireCategory \o "'"
                /\ q.calls[Len(q.calls)] = "Desires.select"
                /\ q.provider_calls = 0 /\ q.inserted = 0
                /\ ~Did(q, "messages.create") /\ ~Did(q, "Stories.insert")

C18_Witness ==
    \E r \in ReqIds :
        /\ C18_NoCatalogRow(req[r])
        /\ req[r].body.desireCategory = "Career"
        /\ req[r].http = 404

\* The bodies the claim rejects: energyWord or desireCategory outside its
\* enumeration, or an empty name, location or desireDescription.
C19_Rejected(body) ==
    \/ body.energyWord \notin {"Powerful", "Peaceful", "Abundant", "Grateful", "Confident"}
    \/ body.desireCategory \notin {"Love", "Money", "Career", "Health", "Home"}
    \/ body.name = "" \/ body.location = "" \/ body.desireDescription = ""

\* C19: a request with such a body is rejected (HTTP 422) before any
\* external call: no datastore read, no provider call, no insert.
C19_InvalidRejectedBeforeCalls ==
    \A r \in ReqIds :
        LET q == req[r]
        IN  (q.pc # "idle" /\ C19_Rejected(q.body)) =>
                /\ q.pc = "done" /\ q.http = 422
                /\ q.calls = <<>>
                /\ q.provider_calls = 0 /\ q.inserted = 0

C19_Witness ==
    \E r \in ReqIds :
        /\ req[r].pc = "done" /\ req[r].http = 422
        /\ req[r].body.desireCategory = "Travel"
        /\ req[r].calls = <<>>

\* The parse of a text under a set of labels: a text that, stripped, begins
\* with a label followed by something gives the rest of the label's line as
\* the theme and what follows that line, stripped, as the body; any other
\* text gives no theme and the stripped text as the body.
C20_Expected(raw0, labels) ==
    LET raw == strip(raw0)
        content == IF raw = <<>> THEN <<>> ELSE lstrip(Tail(raw))
        line == UpToNewline(content)
    IN  IF raw # <<>> /\ Head(raw) \in labels /\ content # <<>>
        THEN [title |-> strip(line),
              body |-> strip(SubSeq(content, Len(line) + 1, Len(content)))]
        ELSE [title |-> <<>>, body |-> raw]

\* C20 (as claimed): the theme is taken from a first line labelled THEME: or
\* TITLE:, in any case, the body is what follows that line without its
\* leading blank lines, and a text without such a line is all body.
C20_Original ==
    call.fn = "_parse_title_and_body" =>
        call.result = C20_Expected(call.raw, {"TITLE:", "title:", "THEME:"})

\* C20 (amended): the theme is taken only from a first line labelled TITLE:,
\* in any case; a text that begins with THEME:, or with no label, gives an
\* empty theme and the whole stripped text as the body.
C20_TitleLabelOnly ==
    call.fn = "_parse_title_and_body" =>
        /\ call.result = C20_Expected(call.raw, {"TITLE:", "title:"})
        /\ (strip(call.raw) # <<>> /\ Head(strip(call.raw)) = "THEME:") =>
              (call.result.title = <<>> /\ call.result.body = strip(call.raw))

C20_Witness ==
    /\ call.fn = "_parse_title_and_body"
    /\ call.raw = <<"THEME:", "a", "\n", "\n", "b">>
    /\ call.result = [title |-> <<>>, body |-> <<"THEME:", "a", "\n", "\n", "b">>]

\* generate_story returned a title and a body to the handler.
GenerationReturned(c) ==
    /\ c.fn = "generate_story"
    /\ c.q.http = 200 \/ c.q.detail = "Failed to store story"

\* C21: when the parsed title is empty the title returned is the fixed title
\* of the category (Money: "The Abundance That Arrived"), or stays empty for
\* a category without one; a parsed title that is not empty is returned.
C21_FallbackTitle ==
    GenerationReturned(call) =>
        LET parsed == _parse_title_and_body(call.q.llm.text).title
            category == call.q.body.desireCategory
            theme == call.row.theme
        IN  /\ (parsed = <<>> /\ category = "Money") =>
                  theme = <<"The Abundance That Arrived">>
            /\ (parsed = <<>> /\ category \in {"Love", "Money", "Career", "Health", "Home"}) =>
                  (theme = TITLE_BY_CATEGORY[category] /\ theme # <<>>)
            /\ (parsed = <<>> /\ category \notin {"Love", "Money", "Career", "Health", "Home"}) =>
                  theme = <<>>
            /\ parsed # <<>> => theme = parsed

C21_Witness ==
    /\ GenerationReturned(call)
    /\ call.q.llm.text = <<"a", "\n", "b">>
    /\ call.q.body.desireCategory = "Money"
    /\ call.row.theme = <<"The Abundance That Arrived">>

IsPrefix(r, t) == Len(r) <= Len(t) /\ r = SubSeq(t, 1, Len(r))

\* C22: the capped body never exceeds the budget; a body within the budget is
\* returned unchanged; a longer one becomes its first max_chars characters
\* less trailing whitespace only; the result is always a prefix of the body.
C22_CappedPrefix ==
    call.fn = "_cap_to_chars" =>
        LET t == call.text
            m == call.max_chars
            r == call.result
            cut == SubSeq(t, 1, m)
        IN  /\ Len(r) <= m
            /\ IsPrefix(r, t)
            /\ Len(t) <= m => r = t
            /\ Len(t) > m =>
                  /\ IsPrefix(r, cut)
                  /\ \A i \in (Len(r) + 1)..m : t[i] \in Whitespace
                  /\ r # <<>> => r[Len(r)] \notin Whitespace

C22_Witness ==
    /\ call.fn = "_cap_to_chars"
    /\ call.max_chars = STORY_MAX_CHARS
    /\ Len(call.text) = LongLen
    /\ Len(call.result) = STORY_MAX_CHARS - 10

\* C23 as stated: every over-long body is cut to exactly the budget length.
C23_Original ==
    (call.fn = "_cap_to_chars" /\ Len(call.text) > call.max_chars) =>
        Len(call.result) = call.max_chars

\* C23, amended: an over-long body is cut to at most the budget length, and
\* to exactly the budget length precisely when the character at the cut is
\* not whitespace (or the budget is 0).
C23_ExactUnlessBlankAtCut ==
    (call.fn = "_cap_to_chars" /\ Len(call.text) > call.max_chars) =>
        LET t == call.text
            m == call.max_chars
        IN  /\ Len(call.result) <= m
            /\ Len(call.result) = m <=> (m = 0 \/ t[m] \notin Whitespace)

C23_Witness ==
    /\ call.fn = "_cap_to_chars"
    /\ Len(call.text) = LongLen
    /\ call.max_chars = STORY_MAX_CHARS
    /\ call.text[STORY_MAX_CHARS] \notin Whitespace
    /\ Len(call.result) = STORY_MAX_CHARS

\* The Stories of the pair of request q, by position in the table (id order),
\* those among them whose theme holds a character that is not whitespace, and
\* a theme without its leading and trailing whitespace.
C24_PairRows(q) ==
    {i \in DOMAIN Stories :
        /\ Stories[i].user_id = q.body.user_id
        /\ q.body.desireCategory \in CategoryOfId(Stories[i].desire_id)}
C24_Themed(q) ==
    {i \in C24_PairRows(q) :
        \E j \in DOMAIN Stories[i].theme : Stories[i].theme[j] \notin Whitespace}
C24_Trimmed(th) ==
    LET solid == {j \in DOMAIN th : th[j] \notin Whitespace}
        first == CHOOSE j \in solid : \A k \in solid : j <= k
        last == CHOOSE j \in solid : \A k \in solid : k <= j
    IN  SubSeq(th, first, last)

\* C24: the history read gives existing_count = the number of the pair's
\* Stories, empty themes included, and the theme list is exactly the trimmed
\* non-empty themes of those Stories in ascending id order.
C24_HistoryCountAndThemes ==
    \A r \in ReqIds :
        "history" \in req[r].got =>
            LET q == req[r]
                themed == C24_Themed(q)
                themes == q.previous_story_themes
            IN  /\ q.story_count - 1 = Cardinality(C24_PairRows(q))
                /\ Len(themes) = Cardinality(themed)
                /\ \A i \in themed :
                      themes[Cardinality({j \in themed : j < i}) + 1]
                          = C24_Trimmed(Stories[i].theme)

C24_Witness ==
    /\ "history" \in req["r1"].got
    /\ Len(Stories) = 2
    /\ req["r1"].story_count = 3
    /\ Stories[1].theme = <<" ">>
    /\ Stories[2].theme = <<" ", "a">>
    /\ req["r1"].previous_story_themes = << <<"a">> >>

\* The datastore calls of request q are reads, but for at most one insert
\* into Stories, issued last.
C25_Reads == {"Users.select", "Stories.count", "Desires.select", "Stories.select"}
C25_OnlyInsertWrites(q) ==
    \A i \in DOMAIN q.calls :
        \/ q.calls[i] \in C25_Reads \cup {"messages.create"}
        \/ q.calls[i] = "Stories.insert" /\ i = Len(q.calls)

\* C25: a step of a generate request leaves Users as it was and every Story
\* that existed where and as it was; it adds at most one Story, and only as
\* the request ends with a successful generation.
C25_Frame ==
    [][(\E r \in ReqIds : req'[r].pc # req[r].pc \/ req'[r].calls # req[r].calls) =>
        /\ Users' = Users
        /\ Len(Stories') \in {Len(Stories), Len(Stories) + 1}
        /\ SubSeq(Stories', 1, Len(Stories)) = Stories
        /\ Stories' # Stories =>
              \E r \in ReqIds : /\ req[r].pc = "generate"
                                /\ req'[r].pc = "done" /\ req'[r].http = 200
        /\ \A r \in ReqIds : C25_OnlyInsertWrites(req'[r])]_vars

\* Both requests went through every step and the table is as it was.
C25_Witness ==
    /\ \A r \in ReqIds : req[r].pc = "done" /\ "call" \in req[r].got
    /\ Len(Stories) = 1

\* C26 as stated: a request that reads a stored playUrl returns it without a
\* provider call, and once a playUrl was stored for the story every request
\* arriving later is answered with that same URL.
C26_Original ==
    \A r \in SpeakIds :
        LET q == req[r]
        IN  (q.pc = "done" /\ q.http = 200) =>
                /\ q.play_url # 0 => (q.url = q.play_url /\ q.provider_calls = 0)
                /\ q.first_url # 0 => q.url = q.first_url

\* C27 as stated: for a story with text and no playUrl, every accepted
\* narration_speed reaches the provider call with a numeric speed.
C27_Original ==
    \A r \in SpeakIds :
        LET q == req[r]
            rows == RowsOfId(Stories, q.body.story_id)
        IN  (/\ q.pc \in {"tts", "done"}
             /\ q.body.narration_speed \in {"slow", "normal", "very_fast", "fast"}
             /\ q.detail # "Stories read raised"
             /\ q.play_url = 0
             /\ rows # <<>> /\ strip(rows[1].story) # <<>>) =>
                (q.provider_calls = 1 /\ q.speed > 0)

\* A response whose first line is the label with an empty value, followed by
\* a blank line and a body; k is where the label line ends.
C28_LabelLineEnd(raw) ==
    {k \in 2..(Len(raw) - 2) :
        /\ raw[1] \in TitleLabels
        /\ \A i \in 2..(k - 1) : raw[i] = " "
        /\ raw[k] = "\n" /\ raw[k + 1] = "\n"
        /\ raw[k + 2] \notin Whitespace}

\* C28 as stated: a label line with an empty value parses as no label line
\* does: the theme is empty and the body keeps every one of its lines.
C28_Original ==
    call.fn = "_parse_title_and_body" =>
        \A k \in C28_LabelLineEnd(call.raw) :
            /\ call.result.title = <<>>
            /\ call.result.body = strip(SubSeq(call.raw, k + 2, Len(call.raw)))

C29_Issued(what) == \E i \in DOMAIN call.calls : call.calls[i] = what

\* C29 as stated: for a user whose stored subscription is active or trialing
\* (in Users and at Stripe) no Subscription.create is issued: the same plan
\* gives HTTP 400 and no Subscription write, another plan a
\* Subscription.modify and, on success, changed_plan true.
C29_Original ==
    (/\ call.fn = "create_subscription"
     /\ call.input.early = 0
     /\ call.before.stripe_subscription_id # None
     /\ call.before.subscription_status \in ActiveStatuses
     /\ call.input.stripe_status \in ActiveStatuses) =>
        /\ ~C29_Issued("Subscription.create")
        /\ call.input.same_plan =>
              (call.http = 400 /\ ~C29_Issued("Subscription.modify"))
        /\ ~call.input.same_plan =>
              /\ C29_Issued("Subscription.modify")
              /\ call.http = 200 => call.changed_plan

\* C30 as stated: two overlapping requests for the same (user, category)
\* pair that read the same history are generated with the same sequence
\* number and the same themes, both insert (when the provider answers with
\* text and the datastore accepts the inserts), and the pair then has more
\* Stories than the sequence number says.
C30_Original ==
    \A r1 \in ReqIds : \A r2 \in ReqIds \ {r1} :
        LET a == req[r1]
            b == req[r2]
        IN  (/\ a.pc = "done" /\ b.pc = "done"
             /\ a.body.user_id = b.body.user_id
             /\ a.body.desireCategory = b.body.desireCategory
             /\ a.overlap /\ b.overlap
             /\ "history" \in a.got /\ "history" \in b.got
             /\ a.seen_hist = b.seen_hist
             /\ Cooperative(a) /\ Cooperative(b)) =>
                /\ a.story_count = b.story_count
                /\ a.previous_story_themes = b.previous_story_themes
                /\ a.inserted # 0 /\ b.inserted # 0
                /\ Cardinality(StoriesOfPair(a.body.user_id, a.body.desireCategory))
                       > b.story_count

====
